---- MODULE Spec2Model ----
(***************************************************************************)
(* Model of scripts/parse_weight_training.py: the set-line parser          *)
(* (parse_set_line), the description aggregator                             *)
(* (parse_weight_training_description) and the activity adapter            *)
(* (get_weight_training_metrics).                                           *)
(*                                                                         *)
(* Text is modelled by TLA+ strings, one character at a time.  Real        *)
(* numbers are modelled as integers counting millionths (Micro): weights   *)
(* and volumes are exact to the millionth, where Python computes them in   *)
(* binary floating point.                                                  *)
(***************************************************************************)
EXTENDS Integers, Sequences, FiniteSets, TLC

(***************************************************************************)
(* Characters and strings                                                  *)
(***************************************************************************)

\* U+00D7, the multiplication sign of the pattern's [xX<U+00D7>] class, is
\* written "*" in this module; no input uses a literal asterisk.
MulSign == "*"

Ch(s, i) == SubSeq(s, i, i)

IsDigit(c) == c \in {"0", "1", "2", "3", "4", "5", "6", "7", "8", "9"}

\* \s of the re module, and the characters str.strip() removes.
IsSpace(c) == c \in {" ", "\t", "\n", "\r"}

\* [xX<U+00D7>]
IsSep(c) == c \in {"x", "X", MulSign}

UpperLetters == "ABCDEFGHIJKLMNOPQRSTUVWXYZ"
LowerLetters == "abcdefghijklmnopqrstuvwxyz"

LowerTable ==
    [c \in {Ch(UpperLetters, k) : k \in 1..26} |->
        Ch(LowerLetters, CHOOSE k \in 1..26 : Ch(UpperLetters, k) = c)]

LowerCh(c) == IF c \in DOMAIN LowerTable THEN LowerTable[c] ELSE c

RECURSIVE Lower(_)
\* str.lower()
Lower(s) == IF s = "" THEN "" ELSE LowerCh(Head(s)) \o Lower(Tail(s))

\* s[p:p+len(w)] == w
HasAt(s, p, w) == p + Len(w) - 1 <= Len(s) /\ SubSeq(s, p, p + Len(w) - 1) = w

\* w in s
Contains(s, w) == \E p \in 1..Len(s) : HasAt(s, p, w)

\* s.startswith(w)
StartsWith(s, w) == HasAt(s, 1, w)

\* str.strip()
Strip(s) ==
    LET keep == {i \in 1..Len(s) : ~IsSpace(Ch(s, i))}
    IN  IF keep = {} THEN ""
        ELSE SubSeq(s, CHOOSE i \in keep : \A j \in keep : i <= j,
                       CHOOSE i \in keep : \A j \in keep : j <= i)

RECURSIVE Split(_)
\* str.split('\n'): the pieces between newlines, in order; always at least one
Split(s) ==
    LET nl == {i \in 1..Len(s) : Ch(s, i) = "\n"}
    IN  IF nl = {} THEN <<s>>
        ELSE LET i == CHOOSE k \in nl : \A j \in nl : k <= j
             IN  <<SubSeq(s, 1, i - 1)>> \o Split(SubSeq(s, i + 1, Len(s)))

(***************************************************************************)
(* The regular-expression engine: each pattern element maps a position to  *)
(* the sequence of positions it can end at, in the order a backtracking    *)
(* matcher tries them (greedy first).  Positions are 1-based indexes of    *)
(* the next unread character.                                              *)
(***************************************************************************)

\* <<hi, hi-1, ..., lo>>
Descending(hi, lo) == [k \in 1..(hi - lo + 1) |-> hi - k + 1]

\* the first position at or after p that holds no digit
DigitRunEnd(s, p) ==
    CHOOSE q \in p..(Len(s) + 1) :
        /\ \A k \in p..(q - 1) : IsDigit(Ch(s, k))
        /\ q = Len(s) + 1 \/ ~IsDigit(Ch(s, q))

SpaceRunEnd(s, p) ==
    CHOOSE q \in p..(Len(s) + 1) :
        /\ \A k \in p..(q - 1) : IsSpace(Ch(s, k))
        /\ q = Len(s) + 1 \/ ~IsSpace(Ch(s, q))

\* \d+
GreedyDigits(s, p) == Descending(DigitRunEnd(s, p), p + 1)

\* \s*
GreedySpaces(s, p) == Descending(SpaceRunEnd(s, p), p)

\* a literal
Lit(s, p, w) == IF HasAt(s, p, w) THEN <<p + Len(w)>> ELSE <<>>

\* w followed by an optional "s", as in lbs?
LitOptS(s, p, w) ==
    IF HasAt(s, p, w) THEN Lit(s, p + Len(w), "s") \o <<p + Len(w)>> ELSE <<>>

\* (?:lbs?|pounds?|kg|kilograms?)  -- the pattern is compiled without flags,
\* so the literals match in lower case only
UnitToken(s, p) ==
    LitOptS(s, p, "lb") \o LitOptS(s, p, "pound") \o Lit(s, p, "kg")
        \o LitOptS(s, p, "kilogram")

\* the pattern with its unit group not optional
UnitRequired(s, p) == UnitToken(s, p)

\* (?:lbs?|pounds?|kg|kilograms?)?
UnitOpt(s, p) == UnitToken(s, p) \o <<p>>

RECURSIVE SpacesFrom(_, _)
\* \s* continued from every position of ps, priorities kept
SpacesFrom(s, ps) ==
    IF ps = <<>> THEN <<>>
    ELSE GreedySpaces(s, Head(ps)) \o SpacesFrom(s, Tail(ps))

RECURSIVE DigitsFrom(_, _)
\* \d+ continued from every position of ps
DigitsFrom(s, ps) ==
    IF ps = <<>> THEN <<>>
    ELSE GreedyDigits(s, Head(ps)) \o DigitsFrom(s, Tail(ps))

RECURSIVE UnitOptFrom(_, _)
\* the optional unit group continued from every position of ps
UnitOptFrom(s, ps) ==
    IF ps = <<>> THEN <<>>
    ELSE UnitOpt(s, Head(ps)) \o UnitOptFrom(s, Tail(ps))

\* [xX<U+00D7>]
Sep(s, p) == IF p <= Len(s) /\ IsSep(Ch(s, p)) THEN <<p + 1>> ELSE <<>>

RECURSIVE SepFrom(_, _)
\* the separator continued from every position of ps
SepFrom(s, ps) ==
    IF ps = <<>> THEN <<>> ELSE Sep(s, Head(ps)) \o SepFrom(s, Tail(ps))

RECURSIVE FractionFrom(_, _)
\* (?:\.\d+)? continued from every end ds of the integer part: with the
\* fraction first, without it second
FractionFrom(s, ds) ==
    IF ds = <<>> THEN <<>>
    ELSE DigitsFrom(s, Lit(s, Head(ds), ".")) \o <<Head(ds)>>
             \o FractionFrom(s, Tail(ds))

\* \d+(?:\.\d+)?  -- the ends of group 1
Number(s, p) == FractionFrom(s, GreedyDigits(s, p))

\* \s*(?:unit)?\s*[xX<U+00D7>]\s*  -- the starts of group 2
UpToReps(s, p) ==
    SpacesFrom(s, SepFrom(s, SpacesFrom(s, UnitOptFrom(s, GreedySpaces(s, p)))))

RECURSIVE Groups(_, _, _, _)
\* the matches with group 1 = [i, n) and group 2 = [r, g) for each end g of gs
Groups(i, n, r, gs) ==
    IF gs = <<>> THEN <<>>
    ELSE <<[g1s |-> i, g1e |-> n, g2s |-> r, g2e |-> Head(gs)]>>
             \o Groups(i, n, r, Tail(gs))

RECURSIVE RepsFrom(_, _, _, _)
\* (\d+) from every start of rs
RepsFrom(s, i, n, rs) ==
    IF rs = <<>> THEN <<>>
    ELSE Groups(i, n, Head(rs), GreedyDigits(s, Head(rs)))
             \o RepsFrom(s, i, n, Tail(rs))

RECURSIVE RestFrom(_, _, _)
\* the rest of the pattern after every end of ns of group 1
RestFrom(s, i, ns) ==
    IF ns = <<>> THEN <<>>
    ELSE RepsFrom(s, i, Head(ns), UpToReps(s, Head(ns)))
             \o RestFrom(s, i, Tail(ns))

\* the matches of the whole pattern that start at i, in the matcher's order
MatchAt(s, i) == RestFrom(s, i, Number(s, i))

\* Python's None for an optional value; a present value v is <<v>> or a pair
None == <<>>

\* re.match in place of re.search: a match at the start of the line only
SearchAnchored(s) ==
    IF s = "" \/ MatchAt(s, 1) = <<>> THEN None ELSE <<Head(MatchAt(s, 1))>>

\* the match at the rightmost start in place of the leftmost
SearchLast(s) ==
    LET starts == {i \in 1..Len(s) : MatchAt(s, i) # <<>>}
    IN  IF starts = {} THEN None
        ELSE <<Head(MatchAt(s, CHOOSE i \in starts : \A j \in starts : j <= i))>>

\* re.search(pattern, line): the first match at the leftmost start, or None
Search(s) ==
    LET starts == {i \in 1..Len(s) : MatchAt(s, i) # <<>>}
    IN  IF starts = {} THEN None
        ELSE <<Head(MatchAt(s, CHOOSE i \in starts : \A j \in starts : i <= j))>>

(***************************************************************************)
(* Numbers                                                                 *)
(***************************************************************************)

\* one pound (or one unit of volume) in the model's integer unit
Micro == 10 ^ 6

\* 2.20462, in hundred-thousandths
KgToLb == 220462

DigitVal(c) == CHOOSE v \in 0..9 : Ch("0123456789", v + 1) = c

RECURSIVE ToInt(_)
\* int(text) of a run of digits
ToInt(t) ==
    IF t = "" THEN 0
    ELSE ToInt(SubSeq(t, 1, Len(t) - 1)) * 10 + DigitVal(Ch(t, Len(t)))

\* float(text) of digits with an optional fraction, in millionths
ToFloat(t) ==
    LET dots == {i \in 1..Len(t) : Ch(t, i) = "."}
    IN  IF dots = {} THEN ToInt(t) * Micro
        ELSE LET d    == CHOOSE i \in dots : TRUE
                 frac == SubSeq(t, d + 1, Len(t))
             IN  ToInt(SubSeq(t, 1, d - 1)) * Micro
                     + (ToInt(frac) * Micro) \div (10 ^ Len(frac))

\* weight * 2.20462, multiplied in two halves to stay inside 32-bit integers;
\* exact when the weight has at most one fractional digit
TimesKgToLb(w) ==
    LET hi == w \div (10 ^ 5)
        lo == w % (10 ^ 5)
    IN  hi * KgToLb + lo * (KgToLb \div (10 ^ 5))
            + (lo * (KgToLb % (10 ^ 5))) \div (10 ^ 5)

\* round(v, 2): to the nearest hundredth.  An exact tie goes to the even
\* hundredth here; no total the inputs below produce is a tie.
Round2(v) ==
    LET q == v \div (10 ^ 4)
        r == v % (10 ^ 4)
    IN  IF r > 5000 \/ (r = 5000 /\ q % 2 = 1) THEN (q + 1) * (10 ^ 4)
        ELSE q * (10 ^ 4)

(***************************************************************************)
(* parse_set_line                                                          *)
(***************************************************************************)

\* the unit looked for in the matched text only, not in the whole line
KgInMatch(line) ==
    LET match == Search(line)
        text  == Lower(SubSeq(line, match[1].g1s, match[1].g2e - 1))
    IN  match # None /\ (Contains(text, "kg") \/ Contains(text, "kilogram"))

\* 'kg' in line.lower() or 'kilogram' in line.lower()
MentionsKg(line) == Contains(Lower(line), "kg") \/ Contains(Lower(line), "kilogram")

parse_set_line(line) ==
    LET match == Search(line)
    IN  IF match = None THEN None
        ELSE LET m      == match[1]
                 weight == ToFloat(SubSeq(line, m.g1s, m.g1e - 1))
                 reps   == ToInt(SubSeq(line, m.g2s, m.g2e - 1))
             IN  <<IF MentionsKg(line) THEN TimesKgToLb(weight) ELSE weight, reps>>

(***************************************************************************)
(* Inputs                                                                  *)
(***************************************************************************)

\* the most lines a description has
MaxLines == 4

\* the raw lines descriptions are made of: a blank line, two exercise
\* names, a padded kilogram set, a line with two weight-x-reps occurrences
\* (the first with weight 0), and one line failing each of the conditions 2
\* to 5 of the exercise-name check
LineSet ==
    {" ",
     "Squat",
     "Curl",
     "\tSet 1: 2.5 kg x 4 [F] ",
     "0x5 3X4",
     "Abs",
     "Set up",
     "Rep max",
     "Logged with Hevy"}

RECURSIVE Join(_)
\* '\n'.join(ls)
Join(ls) == IF Len(ls) = 1 THEN ls[1] ELSE ls[1] \o "\n" \o Join(Tail(ls))

TextsOf(lineSet, n) ==
    {""} \cup {Join(ls) : ls \in UNION {[1..k -> lineSet] : k \in 1..n}}

Descriptions == TextsOf(LineSet, MaxLines)

\* the most lines a description has when two callers run side by side
MaxCallLines == 2

CallLineSet == {" ", "Squat", "\tSet 1: 2.5 kg x 4 [F] ", "Abs"}

CallTexts == TextsOf(CallLineSet, MaxCallLines)

\* the activity records handed to the adapter: no description key, a null
\* description, and a description holding each text
Activities ==
    {[name |-> <<"Workout">>], [description |-> None]}
        \cup {[description |-> <<t>>] : t \in CallTexts}

\* the most fragments a line handed to parse_set_line is made of
MaxFrags == 4

Frags == {"1", "0", ".5", " ", "x", "X", MulSign, "lbs", "kg", "KG", "kilograms"}

RECURSIVE Cat(_)
Cat(fs) == IF fs = <<>> THEN "" ELSE Head(fs) \o Cat(Tail(fs))

FragLines == {Cat(fs) : fs \in UNION {[1..k -> Frags] : k \in 0..MaxFrags}}

\* text a client puts before the weight and after the rep count
Prefixes == {"", "Set 1: ", "KG "}
Suffixes == {"", " [Failure]", " lbs"}

(***************************************************************************)
(* The pure functions are evaluated once per line of LineSet and looked up *)
(* from then on                                                            *)
(***************************************************************************)

StripTable == [r \in LineSet |-> Strip(r)]

SetLineTable == [l \in {Strip(r) : r \in LineSet} |-> parse_set_line(l)]

\* line.strip()
StripOf(raw) == IF raw \in DOMAIN StripTable THEN StripTable[raw] ELSE Strip(raw)

\* parse_set_line(line)
SetDataOf(line) ==
    IF line \in DOMAIN SetLineTable THEN SetLineTable[line] ELSE parse_set_line(line)

(***************************************************************************)
(* State: one frame of locals per caller of                               *)
(* parse_weight_training_description, and the call of parse_set_line made  *)
(* directly by a client.                                                   *)
(***************************************************************************)

VARIABLES frame, set_call

vars == <<frame, set_call>>

Callers == {1, 2}

\* truthiness of an optional string: None and '' are falsy
Truthy(v) == v # None /\ v[1] # ""

\* lines 52-57
Zeros == [total_volume_lbs |-> 0, total_sets |-> 0, total_reps |-> 0,
          exercise_count |-> 0]

\* a caller that is not inside a call
IdleFrame ==
    [pc |-> "idle", activity |-> None, description |-> None, lines |-> <<>>,
     i |-> 0, total_volume |-> 0, total_sets |-> 0, total_reps |-> 0,
     exercises |-> {}, current_exercise |-> None, result |-> None]

\* the call parse_weight_training_description(d) about to run
CallFrame(d) == [IdleFrame EXCEPT !.pc = "call", !.description = d]

\* the call get_weight_training_metrics(a) about to run
AdapterFrame(a) == [IdleFrame EXCEPT !.pc = "adapter", !.activity = <<a>>]

\* no call of parse_set_line under way
IdleSetCall ==
    [state |-> "idle", line |-> "", set_data |-> None, core |-> "",
     annotated |-> FALSE]

(***************************************************************************)
(* parse_weight_training_description, one action per path through the      *)
(* entry check, the loop body and the return                               *)
(***************************************************************************)

\* the totals kept where every call sees them (caller 1's), not reset
StaleLocals(text) ==
    [lines |-> Split(text), total_volume |-> frame[1].total_volume,
     total_sets |-> frame[1].total_sets, total_reps |-> frame[1].total_reps,
     exercises |-> frame[1].exercises, current_exercise |-> None]

\* the locals as lines 59-64 set them
Locals(text) ==
    [lines |-> Split(text), total_volume |-> 0, total_sets |-> 0,
     total_reps |-> 0, exercises |-> {}, current_exercise |-> None]

\* re.search(r'\d+\s*[xX<U+00D7>]\s*\d+', line)
BarePattern(line) ==
    \E p \in 1..Len(line) :
        DigitsFrom(line,
            SpacesFrom(line, SepFrom(line, SpacesFrom(line, GreedyDigits(line, p)))))
                # <<>>

\* the condition without its length test
LooksLikeExerciseAnyLength(line) ==
    /\ ~BarePattern(line)
    /\ ~StartsWith(Lower(line), "set ")
    /\ ~StartsWith(Lower(line), "logged with")
    /\ ~StartsWith(Lower(line), "rep ")

\* the condition of lines 87-91
LooksLikeExercise(line) ==
    /\ ~BarePattern(line)
    /\ ~StartsWith(Lower(line), "set ")
    /\ ~StartsWith(Lower(line), "logged with")
    /\ ~StartsWith(Lower(line), "rep ")
    /\ Len(line) > 3

ExerciseTable == [l \in {Strip(r) : r \in LineSet} |-> LooksLikeExercise(l)]

\* the condition of lines 87-91, looked up
LooksLikeExerciseOf(line) ==
    IF line \in DOMAIN ExerciseTable THEN ExerciseTable[line]
    ELSE LooksLikeExercise(line)

\* the weight alone, the reps forgotten
WeightOnly(set_data) == set_data[1]

\* line 76: weight * reps
VolumeOf(set_data) == set_data[1] * set_data[2]

\* lines 95-100
ResultOf(f) ==
    [total_volume_lbs |-> Round2(f.total_volume), total_sets |-> f.total_sets,
     total_reps |-> f.total_reps, exercise_count |-> Cardinality(f.exercises)]

\* the loop variable after line 67, for a frame inside the loop
CurLine(f) == StripOf(f.lines[f.i])

InLoop(f) == f.pc = "loop" /\ f.i <= Len(f.lines)

\* lines 51-57: a falsy description returns the zero result at once
ReturnZeros(c) ==
    /\ frame[c].pc = "call"
    /\ ~Truthy(frame[c].description)
    /\ frame' = [frame EXCEPT ![c].pc = "done", ![c].result = <<Zeros>>]
    /\ UNCHANGED set_call

\* lines 59-64
SplitLines(c) ==
    /\ frame[c].pc = "call"
    /\ Truthy(frame[c].description)
    /\ LET l == Locals(frame[c].description[1])
       IN  frame' = [frame EXCEPT ![c].pc = "loop", ![c].i = 1,
                         ![c].lines = l.lines,
                         ![c].total_volume = l.total_volume,
                         ![c].total_sets = l.total_sets,
                         ![c].total_reps = l.total_reps,
                         ![c].exercises = l.exercises,
                         ![c].current_exercise = l.current_exercise]
    /\ UNCHANGED set_call

\* lines 67-69
SkipBlank(c) ==
    /\ InLoop(frame[c])
    /\ CurLine(frame[c]) = ""
    /\ frame' = [frame EXCEPT ![c].i = @ + 1]
    /\ UNCHANGED set_call

\* lines 72-80
AddSet(c) ==
    /\ InLoop(frame[c])
    /\ CurLine(frame[c]) # ""
    /\ LET f        == frame[c]
           set_data == SetDataOf(CurLine(f))
       IN  /\ set_data # None
           /\ frame' = [frame EXCEPT
                  ![c].i = @ + 1,
                  ![c].total_volume = @ + VolumeOf(set_data),
                  ![c].total_sets = @ + 1,
                  ![c].total_reps = @ + set_data[2],
                  ![c].exercises =
                      IF Truthy(f.current_exercise)
                      THEN @ \cup {f.current_exercise[1]} ELSE @]
    /\ UNCHANGED set_call

\* the name counted as soon as it is seen, not when a set follows
SetCurrentExerciseCounted(c) ==
    /\ InLoop(frame[c])
    /\ CurLine(frame[c]) # ""
    /\ SetDataOf(CurLine(frame[c])) = None
    /\ LooksLikeExerciseOf(CurLine(frame[c]))
    /\ frame' = [frame EXCEPT ![c].i = @ + 1,
                     ![c].current_exercise = <<CurLine(frame[c])>>,
                     ![c].exercises = @ \cup {CurLine(frame[c])}]
    /\ UNCHANGED set_call

\* lines 81-93, the condition holding
SetCurrentExercise(c) ==
    /\ InLoop(frame[c])
    /\ CurLine(frame[c]) # ""
    /\ SetDataOf(CurLine(frame[c])) = None
    /\ LooksLikeExerciseOf(CurLine(frame[c]))
    /\ frame' = [frame EXCEPT ![c].i = @ + 1,
                     ![c].current_exercise = <<CurLine(frame[c])>>]
    /\ UNCHANGED set_call

\* lines 81-91, the condition failing
IgnoreLine(c) ==
    /\ InLoop(frame[c])
    /\ CurLine(frame[c]) # ""
    /\ SetDataOf(CurLine(frame[c])) = None
    /\ ~LooksLikeExerciseOf(CurLine(frame[c]))
    /\ frame' = [frame EXCEPT ![c].i = @ + 1]
    /\ UNCHANGED set_call

\* lines 95-100
Return(c) ==
    /\ frame[c].pc = "loop"
    /\ frame[c].i > Len(frame[c].lines)
    /\ frame' = [frame EXCEPT ![c].pc = "done",
                     ![c].result = <<ResultOf(frame[c])>>]
    /\ UNCHANGED set_call

(***************************************************************************)
(* get_weight_training_metrics                                             *)
(***************************************************************************)

\* dict.get(key, default)
DictGet(d, key, default) == IF key \in DOMAIN d THEN d[key] ELSE default

\* a or b
Or(a, b) == IF Truthy(a) THEN a ELSE b

\* the description looked up under a key no record has
DescriptionIgnored(activity) == Or(DictGet(activity, "desc", <<"">>), <<"">>)

\* line 112
DescriptionOf(activity) == Or(DictGet(activity, "description", <<"">>), <<"">>)

\* lines 112-113: the adapter's frame becomes the aggregator's call
get_weight_training_metrics(c) ==
    /\ frame[c].pc = "adapter"
    /\ frame' = [frame EXCEPT ![c].pc = "call",
                     ![c].description = DescriptionOf(frame[c].activity[1])]
    /\ UNCHANGED set_call

(***************************************************************************)
(* Clients                                                                 *)
(***************************************************************************)

\* a caller outside a call calls parse_weight_training_description(d)
CallAggregator(c) ==
    /\ frame[c].pc \in {"idle", "done"}
    /\ \E d \in {None} \cup {<<t>> : t \in CallTexts} :
           frame' = [frame EXCEPT ![c] = CallFrame(d)]
    /\ UNCHANGED set_call

\* a caller outside a call calls get_weight_training_metrics(a)
CallAdapter(c) ==
    /\ frame[c].pc \in {"idle", "done"}
    /\ \E a \in Activities : frame' = [frame EXCEPT ![c] = AdapterFrame(a)]
    /\ UNCHANGED set_call

\* lines 22-35: the client's call of parse_set_line(line) returns
CallParseSetLine ==
    /\ set_call.state = "ready"
    /\ set_call' = [set_call EXCEPT !.state = "returned",
                        !.set_data = parse_set_line(set_call.line)]
    /\ UNCHANGED frame

\* the client labels a line that parsed as a set and parses it again
Annotate ==
    /\ set_call.state = "returned"
    /\ ~set_call.annotated
    /\ set_call.set_data # None
    /\ \E pre \in Prefixes, post \in Suffixes :
           /\ pre \o post # ""
           /\ set_call' = [set_call EXCEPT !.state = "ready",
                               !.line = pre \o set_call.core \o post,
                               !.annotated = TRUE]
    /\ UNCHANGED frame

(***************************************************************************)
(* Specifications                                                          *)
(***************************************************************************)

\* one call of parse_weight_training_description on any description
Init ==
    /\ \E d \in {None} \cup {<<t>> : t \in Descriptions} :
           frame = [c \in Callers |-> IF c = 1 THEN CallFrame(d) ELSE IdleFrame]
    /\ set_call = IdleSetCall

Next ==
    \/ ReturnZeros(1)
    \/ SplitLines(1)
    \/ SkipBlank(1)
    \/ AddSet(1)
    \/ SetCurrentExercise(1)
    \/ IgnoreLine(1)
    \/ Return(1)

Spec == Init /\ [][Next]_vars

\* caller 1 calls the aggregator and caller 2 the adapter, each again and
\* again, their steps interleaved
InitCalls ==
    /\ frame = [c \in Callers |-> IdleFrame]
    /\ set_call = IdleSetCall

NextCalls ==
    \/ CallAggregator(1)
    \/ CallAdapter(2)
    \/ get_weight_training_metrics(2)
    \/ \E c \in Callers :
           \/ ReturnZeros(c)
           \/ SplitLines(c)
           \/ SkipBlank(c)
           \/ AddSet(c)
           \/ SetCurrentExercise(c)
           \/ IgnoreLine(c)
           \/ Return(c)

SpecCalls == InitCalls /\ [][NextCalls]_vars

\* one call of parse_set_line on any line, and once more with a label
InitLine ==
    /\ frame = [c \in Callers |-> IdleFrame]
    /\ \E l \in FragLines :
           set_call = [IdleSetCall EXCEPT !.state = "ready", !.line = l,
                           !.core = l]

NextLine == CallParseSetLine \/ Annotate

SpecLine == InitLine /\ [][NextLine]_vars

(***************************************************************************)
(* Vocabulary of the properties: where the pattern "number, optional unit, *)
(* separator, integer" occurs in a line, stated position by position       *)
(***************************************************************************)

AllDigits(s, a, b) == \A k \in a..b : IsDigit(Ch(s, k))

AllSpaces(s, a, b) == \A k \in a..b : IsSpace(Ch(s, k))

UnitWords == {"lbs", "lb", "pound", "pounds", "kg", "kilogram", "kilograms"}

\* s[i..n-1] is digits, or digits "." digits
IsNumberSpan(s, i, n) ==
    /\ i < n
    /\ \/ AllDigits(s, i, n - 1)
       \/ \E d \in (i + 1)..(n - 2) :
              /\ Ch(s, d) = "."
              /\ AllDigits(s, i, d - 1)
              /\ AllDigits(s, d + 1, n - 1)

\* s[n..x-1] is blanks, then possibly a unit word, then blanks
IsUnitGap(s, n, x) ==
    \E u1 \in n..x :
        /\ AllSpaces(s, n, u1 - 1)
        /\ \E u2 \in u1..x :
               /\ u1 = u2 \/ SubSeq(s, u1, u2 - 1) \in UnitWords
               /\ AllSpaces(s, u2, x - 1)

\* the pattern occurs with its number at s[i..n-1] and its integer at s[r..e-1]
Occ(s, i, n, r, e) ==
    /\ IsNumberSpan(s, i, n)
    /\ r < e
    /\ AllDigits(s, r, e - 1)
    /\ \E x \in n..(r - 1) :
           /\ IsSep(Ch(s, x))
           /\ AllSpaces(s, x + 1, r - 1)
           /\ IsUnitGap(s, n, x)

OccursAt(s, i) ==
    /\ IsDigit(Ch(s, i))
    /\ \E n \in (i + 1)..Len(s) :
           /\ IsNumberSpan(s, i, n)
           /\ \E r \in (n + 1)..Len(s) :
                  IsDigit(Ch(s, r)) /\ Occ(s, i, n, r, r + 1)

Occurs(s) == \E i \in 1..Len(s) : OccursAt(s, i)

\* the end of the run of digits that starts at r
WholeEnd(s, r) ==
    CHOOSE e \in (r + 1)..(Len(s) + 1) :
        AllDigits(s, r, e - 1) /\ (e = Len(s) + 1 \/ ~IsDigit(Ch(s, e)))

\* the spans <<i, n, r, e>> of the leftmost occurrence, its integer taken whole
LeftmostSpans(s) ==
    IF ~Occurs(s) THEN {}
    ELSE LET i == CHOOSE k \in 1..Len(s) :
                      OccursAt(s, k) /\ \A j \in 1..(k - 1) : ~OccursAt(s, j)
         IN  {sp \in UNION {{<<i, n, r, WholeEnd(s, r)>> :
                                r \in {q \in (n + 1)..Len(s) : IsDigit(Ch(s, q))}} :
                            n \in {m \in (i + 1)..Len(s) : IsNumberSpan(s, i, m)}} :
                 Occ(s, sp[1], sp[2], sp[3], sp[4])}

\* "kg" or "kilogram" somewhere in the line, in any mix of cases
KgAnywhere(s) ==
    \E w \in {"kg", "kilogram"} :
        \E p \in 1..(Len(s) - Len(w) + 1) :
            \A k \in 1..Len(w) : LowerCh(Ch(s, p + k - 1)) = Ch(w, k)

(***************************************************************************)
(* Properties of parse_set_line, checked under SpecLine                    *)
(***************************************************************************)

Returned == set_call.state = "returned"

\* C2: whenever parse_set_line matches, reps is the integer of the leftmost
\* occurrence and weight is its number, multiplied by 2.20462 exactly when
\* "kg" or "kilogram" stands anywhere in the line in any case, whatever the
\* matched unit token is.
C2_KgAnywhereConverts ==
    (Returned /\ set_call.set_data # None) =>
        \E sp \in LeftmostSpans(set_call.line) :
            LET number == ToFloat(SubSeq(set_call.line, sp[1], sp[2] - 1))
            IN  /\ set_call.set_data[2] = ToInt(SubSeq(set_call.line, sp[3], sp[4] - 1))
                /\ set_call.set_data[1] =
                       IF KgAnywhere(set_call.line) THEN TimesKgToLb(number)
                       ELSE number

\* a pound set labelled "KG " in front: converted although the unit is lbs
C2_Witness ==
    /\ Returned
    /\ set_call.line = "KG 1lbsx1"
    /\ set_call.set_data = <<2204620, 1>>

\* the lines <number> <unit> <separator> <integer>, the unit in any case
UnitForm(s) ==
    \E n \in 2..Len(s) :
        /\ IsNumberSpan(s, 1, n)
        /\ \E u1 \in n..Len(s) :
               /\ AllSpaces(s, n, u1 - 1)
               /\ \E u2 \in (u1 + 1)..Len(s) :
                      /\ Lower(SubSeq(s, u1, u2 - 1)) \in UnitWords
                      /\ \E x \in u2..(Len(s) - 1) :
                             /\ AllSpaces(s, u2, x - 1)
                             /\ IsSep(Ch(s, x))
                             /\ \E r \in (x + 1)..Len(s) :
                                    /\ AllSpaces(s, x + 1, r - 1)
                                    /\ AllDigits(s, r, Len(s))

\* C3: every line <number> <unit> <separator> <integer> whose unit is an
\* upper-, lower- or mixed-case spelling of a unit word parses to a pair.
C3_UnitAnyCase == (Returned /\ UnitForm(set_call.line)) => set_call.set_data # None

\* C4: parse_set_line returns a pair exactly when a number, an optional unit
\* word (as the pattern spells the seven words), a separator (x, X or the
\* multiplication sign) and an integer occur in a row somewhere in the line;
\* text put before or after a line that matched never prevents the match; the
\* empty line and every line without such a sequence give None.
C4_SearchNotAnchored ==
    Returned =>
        /\ (set_call.set_data # None) <=> Occurs(set_call.line)
        /\ set_call.annotated => set_call.set_data # None
        /\ set_call.line = "" => set_call.set_data = None

\* a matching line labelled on both sides still matches
C4_Witness ==
    /\ Returned
    /\ set_call.line = "Set 1: 1kg*0 [Failure]"
    /\ set_call.set_data = <<2204620, 0>>

\* C9: a line on which parse_set_line returns None never holds the bare
\* digits-separator-digits pattern, so condition 1 of the exercise-name check
\* cannot fail where it is evaluated.
C9_BarePatternImpliesSet ==
    (Returned /\ set_call.set_data = None) => ~BarePattern(set_call.line)

\* a near miss: digits, a separator and digits, kept apart by a unit in capitals
C9_Witness ==
    /\ Returned
    /\ set_call.line = "1KGx1"
    /\ set_call.set_data = None

(***************************************************************************)
(* Vocabulary of the properties of the aggregator                          *)
(***************************************************************************)

RECURSIVE SetSum(_, _)
\* the sum of f over S
SetSum(S, f) ==
    IF S = {} THEN 0
    ELSE LET k == CHOOSE j \in S : TRUE IN f[k] + SetSum(S \ {k}, f)

Largest(S) == CHOOSE k \in S : \A j \in S : j <= k

\* line k of ls is not blank and parse_set_line gives a pair for it
RecognizedAt(ls, k) == StripOf(ls[k]) # "" /\ SetDataOf(StripOf(ls[k])) # None

\* line k of ls is classified as an exercise name by the aggregator
NamedAt(ls, k) ==
    /\ StripOf(ls[k]) # ""
    /\ SetDataOf(StripOf(ls[k])) = None
    /\ LooksLikeExerciseOf(StripOf(ls[k]))

\* the five conditions, spelled out: no digit, separator, digit in a row
\* (blanks allowed around the separator), none of the three prefixes in any
\* case, more than three characters
FiveConditions(line) ==
    /\ ~\E x \in 2..(Len(line) - 1) :
           /\ IsSep(Ch(line, x))
           /\ \E a \in 1..(x - 1) :
                  IsDigit(Ch(line, a)) /\ AllSpaces(line, a + 1, x - 1)
           /\ \E b \in (x + 1)..Len(line) :
                  IsDigit(Ch(line, b)) /\ AllSpaces(line, x + 1, b - 1)
    /\ \A w \in {"set ", "logged with", "rep "} :
           ~(Len(line) >= Len(w) /\ Lower(SubSeq(line, 1, Len(w))) = w)
    /\ Len(line) > 3

ClaimLines == {Strip(r) : r \in LineSet \cup CallLineSet}

FiveConditionsTable == [l \in ClaimLines |-> FiveConditions(l)]

\* the integer of the leftmost occurrence of the pattern in the line, if any
LeftmostRepsTable ==
    [l \in ClaimLines |->
        {ToInt(SubSeq(l, sp[3], sp[4] - 1)) : sp \in LeftmostSpans(l)}]

Done(c) == frame[c].pc = "done"

(***************************************************************************)
(* Properties of parse_weight_training_description, checked under Spec     *)
(***************************************************************************)

\* C1 (as claimed): for a non-empty description, total_sets is the number of
\* non-blank lines parse_set_line recognizes, total_reps the sum of their reps
\* and total_volume_lbs the sum of weight x reps over them.
C1_TotalsAreSums ==
    (Done(1) /\ Truthy(frame[1].description)) =>
        LET ls == Split(frame[1].description[1])
            R  == {k \in 1..Len(ls) : RecognizedAt(ls, k)}
            d  == [k \in R |-> SetDataOf(StripOf(ls[k]))]
            r  == frame[1].result[1]
        IN  /\ r.total_sets = Cardinality(R)
            /\ r.total_reps = SetSum(R, [k \in R |-> d[k][2]])
            /\ r.total_volume_lbs = SetSum(R, [k \in R |-> d[k][1] * d[k][2]])
            /\ r.total_volume_lbs >= 0

\* C1 (amended): as claimed, but total_volume_lbs is that sum rounded to two
\* decimal places.
C1_TotalsAreSumsRounded ==
    (Done(1) /\ Truthy(frame[1].description)) =>
        LET ls == Split(frame[1].description[1])
            R  == {k \in 1..Len(ls) : RecognizedAt(ls, k)}
            d  == [k \in R |-> SetDataOf(StripOf(ls[k]))]
            r  == frame[1].result[1]
        IN  /\ r.total_sets = Cardinality(R)
            /\ r.total_reps = SetSum(R, [k \in R |-> d[k][2]])
            /\ r.total_volume_lbs =
                   Round2(SetSum(R, [k \in R |-> d[k][1] * d[k][2]]))
            /\ r.total_volume_lbs >= 0

\* a blank line, a line that is no set, a kilogram set and a set of weight 0:
\* two sets, 4 + 5 reps, 2.5 * 2.20462 * 4 = 22.0462 returned as 22.05
C1_Witness ==
    /\ Done(1)
    /\ frame[1].lines = <<" ", "Abs", "\tSet 1: 2.5 kg x 4 [F] ", "0x5 3X4">>
    /\ frame[1].result =
           <<[total_volume_lbs |-> 22050000, total_sets |-> 2, total_reps |-> 9,
              exercise_count |-> 0]>>

\* C5: exercise_count is the number of distinct trimmed texts of the name lines
\* that are followed by a recognized set line before the next name line.
C5_ExerciseCount ==
    (Done(1) /\ Truthy(frame[1].description)) =>
        LET ls == Split(frame[1].description[1])
            n  == Len(ls)
        IN  frame[1].result[1].exercise_count =
                Cardinality({StripOf(ls[k]) : k \in
                    {m \in 1..n :
                        /\ NamedAt(ls, m)
                        /\ \E j \in (m + 1)..n :
                               /\ RecognizedAt(ls, j)
                               /\ \A q \in (m + 1)..(j - 1) : ~NamedAt(ls, q)}})

\* a name with no set before the next name, which has a set twice over
C5_Witness ==
    /\ Done(1)
    /\ frame[1].lines = <<"Curl", "Squat", "0x5 3X4", "0x5 3X4">>
    /\ frame[1].exercises = {"Squat"}
    /\ frame[1].result[1].exercise_count = 1

\* the same name twice, each time with a set: counted once
C5_WitnessRepeated ==
    /\ Done(1)
    /\ frame[1].lines = <<"Squat", "0x5 3X4", "Squat", "0x5 3X4">>
    /\ frame[1].result[1].exercise_count = 1

\* the cursor is the trimmed text of the last processed line that is not
\* blank, is no set and meets the five conditions; unset if there is none
C8_CursorIsLastName ==
    frame[1].pc \in {"loop", "done"} =>
        LET f     == frame[1]
            names == {k \in 1..(f.i - 1) :
                         /\ StripOf(f.lines[k]) # ""
                         /\ SetDataOf(StripOf(f.lines[k])) = None
                         /\ FiveConditionsTable[StripOf(f.lines[k])]}
        IN  f.current_exercise =
                IF names = {} THEN None ELSE <<StripOf(f.lines[Largest(names)])>>

\* processing a line that is no set leaves the totals and the seen names alone
C8_NonSetLineFrame ==
    (InLoop(frame[1]) /\ SetDataOf(CurLine(frame[1])) = None) =>
        /\ frame'[1].total_volume = frame[1].total_volume
        /\ frame'[1].total_sets = frame[1].total_sets
        /\ frame'[1].total_reps = frame[1].total_reps
        /\ frame'[1].exercises = frame[1].exercises

\* C8: at every point of an aggregation the cursor is the trimmed text of the
\* most recent non-set line meeting all five conditions (unset if none), and a
\* non-set line never changes the totals or the set of seen exercise names.
C8_Cursor == [](C8_CursorIsLastName) /\ [][C8_NonSetLineFrame]_vars

\* each kind of line after a name: the cursor is still the name
C8_Witness ==
    /\ frame[1].pc = "loop"
    /\ frame[1].i = 5
    /\ frame[1].lines = <<"Curl", "Abs", " ", "0x5 3X4">>
    /\ frame[1].current_exercise = <<"Curl">>

\* seen names <= sets <= non-blank lines processed; no set, no reps, volume
\* or names
C10_Bounds ==
    frame[1].pc \in {"loop", "done"} =>
        LET f == frame[1]
        IN  /\ Cardinality(f.exercises) <= f.total_sets
            /\ f.total_sets <=
                   Cardinality({k \in 1..(f.i - 1) : StripOf(f.lines[k]) # ""})
            /\ f.total_sets = 0 =>
                   f.total_reps = 0 /\ f.total_volume = 0 /\ f.exercises = {}

\* a line holding the pattern, however often, adds one set and the reps of the
\* leftmost occurrence; any other line adds no set
C10_OneSetPerLine ==
    InLoop(frame[1]) =>
        LET reps == LeftmostRepsTable[CurLine(frame[1])]
        IN  IF reps = {}
            THEN frame'[1].total_sets = frame[1].total_sets
            ELSE /\ frame'[1].total_sets = frame[1].total_sets + 1
                 /\ frame'[1].total_reps - frame[1].total_reps \in reps

\* C10: after every processed line, seen names <= total_sets <= non-blank
\* lines processed, total_sets = 0 implies no reps, no volume and no seen
\* names, and a line with several occurrences of the pattern counts as one set,
\* that of its leftmost occurrence.
C10_SetsBounded == [](C10_Bounds) /\ [][C10_OneSetPerLine]_vars

\* the line with two occurrences, processed: one set of 5 reps, not 4 or 9
C10_Witness ==
    /\ frame[1].pc = "loop"
    /\ frame[1].i = 3
    /\ frame[1].lines = <<"Squat", "0x5 3X4", "Curl">>
    /\ frame[1].total_sets = 1
    /\ frame[1].total_reps = 5
    /\ frame[1].exercises = {"Squat"}

(***************************************************************************)
(* Properties of the calls, checked under SpecCalls                        *)
(***************************************************************************)

\* the record holds a description that is neither null nor empty
HasText(a) ==
    "description" \in DOMAIN a /\ a["description"] # None /\ a["description"][1] # ""

\* C6: an empty or null description gives the all-zero result; the adapter
\* hands on the record's description, or '' when it is missing, null or empty
\* (so returns all zeros then), and otherwise returns what the aggregator
\* returns for that description.
C6_EmptyDegradesToZeros ==
    /\ \A c \in Callers :
           (Done(c) /\ ~Truthy(frame[c].description)) =>
               frame[c].result = <<Zeros>>
    /\ frame[2].pc \in {"call", "loop", "done"} =>
           LET a == frame[2].activity[1]
           IN  frame[2].description =
                   IF HasText(a) THEN a["description"] ELSE <<"">>
    /\ (Done(1) /\ Done(2) /\ HasText(frame[2].activity[1])
            /\ frame[1].description = frame[2].activity[1]["description"]) =>
           frame[2].result = frame[1].result

\* the aggregator on null and the adapter on a record with no description
C6_Witness ==
    /\ Done(1)
    /\ frame[1].description = None
    /\ frame[1].result = <<Zeros>>
    /\ Done(2)
    /\ frame[2].activity = <<[name |-> <<"Workout">>]>>
    /\ frame[2].description = <<"">>
    /\ frame[2].result = <<Zeros>>

\* the adapter on a record whose description holds a set
C6_WitnessDelegates ==
    /\ Done(1) /\ Done(2)
    /\ frame[2].activity = <<[description |-> <<"Squat\n\tSet 1: 2.5 kg x 4 [F] ">>]>>
    /\ frame[1].description = <<"Squat\n\tSet 1: 2.5 kg x 4 [F] ">>
    /\ frame[2].result[1].total_sets = 1

\* C7: two calls on the same text return the same result, whatever calls ran
\* before them and however their steps interleave with other calls.
C7_SameTextSameResult ==
    (Done(1) /\ Done(2) /\ frame[1].description = frame[2].description) =>
        frame[1].result = frame[2].result

\* two finished calls on the same text with a set in it
C7_Witness ==
    /\ Done(1) /\ Done(2)
    /\ frame[1].description = <<"\tSet 1: 2.5 kg x 4 [F] \nSquat">>
    /\ frame[2].description = frame[1].description
    /\ frame[1].result[1].total_sets = 1
    /\ frame[1].result[1].total_volume_lbs = 22050000

====
